---- MODULE Spec2Model ----
(***************************************************************************)
(* A model of the CPU-side tiling pipeline of pathfinder's renderer:       *)
(* Scene (scene.rs), SceneManager (manager.rs) and SceneBuilder /          *)
(* BuiltObject / SceneTiles (builder.rs).                                  *)
(*                                                                         *)
(* Geometry is kept in one dimension and in whole tiles: a tile is the     *)
(* pair <<x, 0>>, a rectangle is a half-open interval [lo, hi) of tile     *)
(* columns.  Pixel coordinates inside a tile are integers.  The outline    *)
(* library, the tiler, the z-buffer, the command records and the executor  *)
(* are not part of the sources modelled here; their definitions follow     *)
(* the design document and are marked so in MODEL_MAP.json.                *)
(***************************************************************************)
EXTENDS Integers, Sequences, FiniteSets, TLC

\* ------------------------------------------------------------------ bounds

\* The most paths a scene holds.
MaxPaths == 2
\* The widest view box, in tiles.
MaxViewW == 1
\* The largest translation of a 2D transform, in tiles.
MaxShift == 1
\* The largest x-scale of a 2D transform's matrix.
MaxScale == 2
\* The longest build time a rebuild measures, in clock ticks.
MaxElapsed == 1
\* The largest dilation, in pixels.
MaxDilation == 1
\* Coordinates are whole multiples of 1 / (256 * Resolution) of a pixel.
Resolution == 2
\* The width, in tiles, of the objects whose fills are given call by call.
FillTiles == 2
\* The most calls the tilers make on their objects.
MaxCalls == 2
\* The largest winding, in absolute value, of an active fill.
MaxWinding == 2

\* ------------------------------------------------------- program constants

TILE_WIDTH == 16
TILE_HEIGHT == 16
\* The scale that subpixel AA multiplies x by (scene.rs: Vector2F::new(3.0, 1.0)).
SUBPIXEL_SCALE == 3
\* u16::MAX, the value !0 of an unallocated alpha_tile_index.
U16_MAX == 65535
\* The sentinel byte of a culled alpha tile.
CULLED == 255
\* One pixel in 4.8 fixed point.
FIXED_ONE == 256

\* ------------------------------------------------------------- small helpers

Min(a, b) == IF a < b THEN a ELSE b
Max(a, b) == IF a > b THEN a ELSE b

RECURSIVE Concat(_)
\* The concatenation of a sequence of sequences, in index order.
Concat(ss) == IF ss = <<>> THEN <<>> ELSE Head(ss) \o Concat(Tail(ss))

RECURSIVE SeqOfSet(_)
\* The elements of a finite set of integers, ascending.
SeqOfSet(S) ==
    IF S = {} THEN <<>>
    ELSE LET m == CHOOSE x \in S : \A y \in S : x <= y
         IN <<m>> \o SeqOfSet(S \ {m})

\* The set of the elements of sequence s.
Range(s) == {s[i] : i \in 1..Len(s)}

\* --------------------------------------------------------------- the domain

\* Every tile column a source or destination coordinate can fall on.
MaxCol == SUBPIXEL_SCALE * (MaxViewW + 1)
Cols == (0 - MaxCol)..MaxCol

\* Paints: a colour with an alpha channel.
Red   == [color |-> "red",   a |-> 255]
Glass == [color |-> "glass", a |-> 128]
PaintValues == {Red, Glass}

\* paint.rs: Paint::is_opaque.
IsOpaque(paint) == paint.a = 255

\* How an outline relates to one tile column:
\*   "empty"       no coverage, no edge
\*   "edge"        partly covered: an edge crosses the tile
\*   "solid"       fully covered, no edge inside (non-zero backdrop)
\*   "coveredEdge" fully covered by one contour while another contour's edge
\*                 crosses the tile (non-zero backdrop and fills)
Kinds == {"empty", "edge", "solid", "coveredEdge"}

\* The outlines a caller can make.
Shapes == {"rect", "tri", "knot"}

\* The tile kind of a shape at source column x.
ShapeKind(shape, x) ==
    CASE shape = "rect" -> IF x >= 0 THEN "solid" ELSE "empty"
      [] shape = "tri"  -> IF x = 0 THEN "edge" ELSE "empty"
      [] shape = "knot" -> IF x = 0 THEN "coveredEdge"
                           ELSE IF x > 0 THEN "solid" ELSE "empty"
      [] OTHER          -> "empty"

\* An outline: a shape, the affine map x |-> scale * x + shift applied to it so
\* far, the source columns a polygon clip kept, the destination columns a
\* rectangle clip kept, and the dilation applied.
OutlineOf(shape) ==
    [shape |-> shape, scale |-> 1, shift |-> 0, poly |-> Cols, clip |-> Cols,
     dilation |-> 0]

\* Outline::new: the empty outline.
OutlineNew == OutlineOf("none")

\* The tile kind of an outline at destination column d.
KindAt(outline, d) ==
    LET src == (d - outline.shift) \div outline.scale
    IN IF d \notin outline.clip \/ src \notin outline.poly
       THEN "empty"
       ELSE ShapeKind(outline.shape, src)

\* Outline::bounds, as the interval of columns that are not empty.
OutlineBounds(outline) ==
    LET used == {d \in Cols : KindAt(outline, d) # "empty"}
    IN IF used = {} THEN [lo |-> 0, hi |-> 0]
       ELSE [lo |-> CHOOSE d \in used : \A e \in used : d <= e,
             hi |-> 1 + CHOOSE d \in used : \A e \in used : d >= e]

\* Outline::transform by a 2D transform.
OutlineTransform(outline, t) ==
    [outline EXCEPT !.scale = t.matrix * @, !.shift = t.matrix * @ + t.vector]

\* Outline::clip_against_rect.
ClipAgainstRect(outline, rect) ==
    [outline EXCEPT !.clip = {d \in @ : rect.lo <= d /\ d < rect.hi}]

\* Outline::is_outside_polygon.
IsOutsidePolygon(outline, polygon) ==
    \A x \in polygon : KindAt(outline, x) = "empty"

\* Outline::clip_against_polygon.
ClipAgainstPolygon(outline, polygon) ==
    [outline EXCEPT !.poly = @ \cap polygon]

\* Outline::apply_perspective: the projection keeps the tile columns.
ApplyPerspective(outline, perspective) == outline

\* Outline::dilate.
Dilate(outline, amount) == [outline EXCEPT !.dilation = amount]

\* Outline::prepare_for_tiling.
PrepareForTiling(outline, view_box) == ClipAgainstRect(outline, view_box)

\* RectF::union_rect.
UnionRect(a, b) == [lo |-> Min(a.lo, b.lo), hi |-> Max(a.hi, b.hi)]

\* RectF::default.
RectDefault == [lo |-> 0, hi |-> 0]

\* RectF::scale_xy by (s, 1).
ScaleRect(r, s) == [lo |-> r.lo * s, hi |-> r.hi * s]

\* ------------------------------------------------------------- scene.rs

\* PathObject::new.
PathObjectNew(outline, paint) == [outline |-> outline, paint |-> paint]

\* Scene::new.
SceneNew ==
    [paths |-> <<>>, paints |-> <<>>, paint_cache |-> <<>>,
     bounds |-> RectDefault, view_box |-> RectDefault]

\* Scene::push_path.
PushPath(scene, path) ==
    [scene EXCEPT !.bounds = UnionRect(@, OutlineBounds(path.outline)),
                  !.paths = Append(@, path)]

\* The id the paint cache holds for a paint; the cache is a sequence of
\* <<paint, id>> entries.
CacheGet(paint_cache, paint) ==
    {e[2] : e \in {f \in Range(paint_cache) : f[1] = paint}}

\* Scene::push_paint without the insertion into the paint cache.
PushPaintSceneNoInsert(scene, paint) ==
    IF CacheGet(scene.paint_cache, paint) # {}
    THEN scene
    ELSE [scene EXCEPT !.paints = Append(@, paint)]

\* Scene::push_paint: the scene after the call.
PushPaintScene(scene, paint) ==
    IF CacheGet(scene.paint_cache, paint) # {}
    THEN scene
    ELSE LET paint_id == Len(scene.paints) % (U16_MAX + 1)
         IN [scene EXCEPT !.paint_cache = Append(@, <<paint, paint_id>>),
                          !.paints = Append(@, paint)]

\* Scene::push_paint: the id returned.
PushPaintId(scene, paint) ==
    IF CacheGet(scene.paint_cache, paint) # {}
    THEN CHOOSE id \in CacheGet(scene.paint_cache, paint) : TRUE
    ELSE Len(scene.paints) % (U16_MAX + 1)

\* Scene::set_view_box.
SetViewBox(scene, new_view_box) == [scene EXCEPT !.view_box = new_view_box]

\* Scene::effective_view_box.
EffectiveViewBox(scene, options) ==
    IF options.subpixel_aa_enabled
    THEN ScaleRect(scene.view_box, SUBPIXEL_SCALE)
    ELSE scene.view_box

\* Transform2DF::default, the identity.
Transform2DDefault == [matrix |-> 1, vector |-> 0]

\* Transform2DF::is_identity.
IsIdentity(t) == t = Transform2DDefault

\* Transform2DF::post_mul with Transform2DF::from_scale((s, 1)).
PostMulScale(t, s) == [matrix |-> t.matrix * s, vector |-> t.vector * s]

\* Scene::apply_render_options without the test for an outline outside the clip
\* polygon and without the polygon clip: the outline is only projected.
ApplyRenderOptionsNoCull(scene, original_outline, transform, options) ==
    LET effective_view_box == EffectiveViewBox(scene, options)
        transformed ==
            IF transform.kind = "Perspective"
            THEN ApplyPerspective(original_outline, transform.perspective)
            ELSE LET t0 == IF transform.kind = "Transform2D"
                           THEN transform.transform
                           ELSE Transform2DDefault
                     t1 == IF options.subpixel_aa_enabled
                           THEN PostMulScale(t0, SUBPIXEL_SCALE)
                           ELSE t0
                     moved == IF transform.kind = "Transform2D"
                                 \/ options.subpixel_aa_enabled
                              THEN OutlineTransform(original_outline, t1)
                              ELSE original_outline
                 IN ClipAgainstRect(moved, effective_view_box)
        dilated == IF options.dilation # 0
                   THEN Dilate(transformed, options.dilation)
                   ELSE transformed
    IN PrepareForTiling(dilated, effective_view_box)

\* Scene::apply_render_options.
ApplyRenderOptions(scene, original_outline, transform, options) ==
    LET effective_view_box == EffectiveViewBox(scene, options)
        transformed ==
            IF transform.kind = "Perspective"
            THEN IF IsOutsidePolygon(original_outline, transform.clip_polygon)
                 THEN OutlineNew
                 ELSE ApplyPerspective(
                          ClipAgainstPolygon(original_outline, transform.clip_polygon),
                          transform.perspective)
            ELSE LET t0 == IF transform.kind = "Transform2D"
                           THEN transform.transform
                           ELSE Transform2DDefault
                     t1 == IF options.subpixel_aa_enabled
                           THEN PostMulScale(t0, SUBPIXEL_SCALE)
                           ELSE t0
                     moved == IF transform.kind = "Transform2D"
                                 \/ options.subpixel_aa_enabled
                              THEN OutlineTransform(original_outline, t1)
                              ELSE original_outline
                 IN ClipAgainstRect(moved, effective_view_box)
        dilated == IF options.dilation # 0
                   THEN Dilate(transformed, options.dilation)
                   ELSE transformed
    IN PrepareForTiling(dilated, effective_view_box)

\* ----------------------------------------------------------- manager.rs

\* BuildOptions::default.
BuildOptionsDefault == [dilation |-> 0, subpixel_aa_enabled |-> FALSE]

\* RenderTransform::Transform2D and RenderTransform::Perspective.
RenderTransform2D(t) == [kind |-> "Transform2D", transform |-> t]
RenderPerspective(p) == [kind |-> "Perspective", perspective |-> p]

\* PolygonClipper3D::clip, projected back to source space: the source columns of
\* the scene bounds that a perspective keeps in front of the near plane.
ClipPolygon(perspective, bounds) ==
    IF perspective = "behind" THEN {}
    ELSE {x \in Cols : bounds.lo <= x /\ x < bounds.hi}

\* RenderTransform::prepare.
Prepare(render_transform, bounds) ==
    IF render_transform.kind = "Transform2D"
    THEN IF IsIdentity(render_transform.transform)
         THEN [kind |-> "None"]
         ELSE [kind |-> "Transform2D", transform |-> render_transform.transform]
    ELSE [kind |-> "Perspective",
          perspective |-> render_transform.perspective,
          clip_polygon |-> ClipPolygon(render_transform.perspective, bounds),
          quad |-> <<render_transform.perspective, bounds>>]

\* PreparedRenderTransform::bounding_quad.
BoundingQuad(transform) ==
    IF transform.kind = "Perspective" THEN transform.quad ELSE <<>>

\* SceneManager::scene_is_dirty comparing the whole transform, translation
\* included.
SceneIsDirtyOnTranslation(cache_policy_, render_transform_, cached_data_) ==
    IF cache_policy_ = "Never" THEN TRUE
    ELSE IF render_transform_.kind = "Perspective" THEN TRUE
    ELSE IF cached_data_ = <<>> THEN TRUE
    ELSE cached_data_[1].transform # render_transform_.transform

\* SceneManager::scene_is_dirty without the test of the cache policy.
SceneIsDirtyIgnoresPolicy(cache_policy_, render_transform_, cached_data_) ==
    IF render_transform_.kind = "Perspective" THEN TRUE
    ELSE IF cached_data_ = <<>> THEN TRUE
    ELSE cached_data_[1].transform.matrix # render_transform_.transform.matrix

\* SceneManager::scene_is_dirty.
SceneIsDirty(cache_policy_, render_transform_, cached_data_) ==
    IF cache_policy_ = "Never" THEN TRUE
    ELSE IF render_transform_.kind = "Perspective" THEN TRUE
    ELSE IF cached_data_ = <<>> THEN TRUE
    ELSE cached_data_[1].transform.matrix # render_transform_.transform.matrix

\* ------------------------------------- command.rs, tile_map.rs, z_buffer.rs

\* A tile column as tile coordinates.
Tile(x) == <<x, 0>>

\* The tiles of a rectangle, in row-major order.
TilesOf(rect) == [i \in 1..Max(rect.hi - rect.lo, 0) |-> Tile(rect.lo + i - 1)]

\* tiles::round_rect_out_to_tile_bounds; rectangles are in whole tiles here.
RoundRectOutToTileBounds(rect) == rect

\* TileObjectPrimitive::default.
TileObjectPrimitiveDefault == [alpha_tile_index |-> U16_MAX, backdrop |-> 0]

\* DenseTileMap::new.
DenseTileMapNew(rect) ==
    [rect |-> rect,
     data |-> [i \in 1..Max(rect.hi - rect.lo, 0) |-> TileObjectPrimitiveDefault]]

\* DenseTileMap::coords_to_index: <<index>>, or <<>> for None.
CoordsToIndex(map, coords) ==
    IF map.rect.lo <= coords[1] /\ coords[1] < map.rect.hi /\ coords[2] = 0
    THEN <<coords[1] - map.rect.lo + 1>>
    ELSE <<>>

\* DenseTileMap::coords_to_index_unchecked.
CoordsToIndexUnchecked(map, coords) == coords[1] - map.rect.lo + 1

\* AlphaTileBatchPrimitive::new.
AlphaTileNew(tile_coords, backdrop, object_index, paint_id) ==
    [tile_x_lo |-> tile_coords[1] % 256,
     tile_y_lo |-> tile_coords[2] % 256,
     tile_hi |-> ((tile_coords[1] \div 256) % 16) + 16 * ((tile_coords[2] \div 256) % 16),
     backdrop |-> backdrop,
     object_index |-> object_index,
     paint_id |-> paint_id]

\* AlphaTileBatchPrimitive::tile_coords.
AlphaTileCoords(alpha_tile) ==
    <<alpha_tile.tile_x_lo + 256 * (alpha_tile.tile_hi % 16),
      alpha_tile.tile_y_lo + 256 * (alpha_tile.tile_hi \div 16)>>

\* ZBuffer::new: one cell per tile of the view box, all 0.
ZBufferNew(view_box) ==
    LET rect == RoundRectOutToTileBounds(view_box)
    IN [rect |-> rect, data |-> [i \in 1..Max(rect.hi - rect.lo, 0) |-> 0]]

\* ZBuffer::update as a plain store: the cell is set to path_index + 1 whatever
\* it holds.
ZBufferUpdateStore(z, coords, path_index) ==
    [z EXCEPT !.data[CoordsToIndexUnchecked(z, coords)] = path_index + 1]

\* ZBuffer::update: raise the cell to path_index + 1.
ZBufferUpdate(z, coords, path_index) ==
    [z EXCEPT !.data[CoordsToIndexUnchecked(z, coords)] = Max(@, path_index + 1)]

\* ZBuffer::test.
ZBufferTest(z, coords, path_index) ==
    z.data[CoordsToIndexUnchecked(z, coords)] > path_index + 1

\* ZBuffer::build_solid_tiles.
BuildSolidTiles(z, paths) ==
    LET cells == {i \in DOMAIN z.data : z.data[i] # 0}
        order == SeqOfSet(cells)
    IN [k \in 1..Len(order) |->
           [tile_coords |-> Tile(z.rect.lo + order[k] - 1),
            paint_id |-> paths[z.data[order[k]]].paint]]

\* ----------------------------------------------------- builder.rs: BuiltObject

\* One pixel, in coordinate units.
Pixel == FIXED_ONE * Resolution

\* A line segment from (from_x, from_y) to (to_x, to_y), in coordinate units.
Segment(from_x, from_y, to_x, to_y) ==
    [from_x |-> from_x, from_y |-> from_y, to_x |-> to_x, to_y |-> to_y]

\* BuiltObject::new.
BuiltObjectNew(bounds) ==
    [bounds |-> bounds,
     fills |-> <<>>,
     alpha_tiles |-> <<>>,
     tiles |-> DenseTileMapNew(RoundRectOutToTileBounds(bounds))]

\* BuiltObject::tile_coords_to_local_index.
TileCoordsToLocalIndex(object, coords) == CoordsToIndex(object.tiles, coords)

\* One component of a segment in 4.8 fixed point relative to the tile's upper
\* left corner: (v - tile_upper_left) * 256, clamped to [0, TILE_WIDTH * 256 - 1],
\* truncated to an integer.
ToFixed(v, tile_coord) ==
    LET rel == v - tile_coord * TILE_WIDTH * Pixel
    IN IF rel < 0 THEN 0
       ELSE Min(rel \div Resolution, TILE_WIDTH * FIXED_ONE - 1)

\* The whole pixels packed with the nibbles of x and y the wrong way round.
PackPxSwapped(x, y) == ((y \div 256) % 16) + 16 * ((x \div 256) % 16)

\* The whole pixels of a fill end point, packed: x in the low nibble, y in the
\* high nibble ((segment & 0xf00) >> (8, 4, 8, 4), then px | px.yxwz()).
PackPx(x, y) == ((x \div 256) % 16) + 16 * ((y \div 256) % 16)

\* BuiltObject::get_or_allocate_alpha_tile_index reading the shared counter
\* with a load instead of fetch_add: the counter is not advanced.
GetOrAllocateAlphaTileIndexLoad(object, next_index, tile_coords) ==
    LET local_tile_index == CoordsToIndexUnchecked(object.tiles, tile_coords)
        alpha_tile_index == object.tiles.data[local_tile_index].alpha_tile_index
    IN IF alpha_tile_index # U16_MAX
       THEN [object |-> object, next |-> next_index, index |-> alpha_tile_index]
       ELSE LET fresh == next_index % (U16_MAX + 1)
            IN [object |-> [object EXCEPT
                    !.tiles.data[local_tile_index].alpha_tile_index = fresh],
                next |-> next_index,
                index |-> fresh]

\* BuiltObject::get_or_allocate_alpha_tile_index: the object and the builder's
\* next_alpha_tile_index after the call, and the index returned.
GetOrAllocateAlphaTileIndex(object, next_index, tile_coords) ==
    LET local_tile_index == CoordsToIndexUnchecked(object.tiles, tile_coords)
        alpha_tile_index == object.tiles.data[local_tile_index].alpha_tile_index
    IN IF alpha_tile_index # U16_MAX
       THEN [object |-> object, next |-> next_index, index |-> alpha_tile_index]
       ELSE LET fresh == next_index % (U16_MAX + 1)
            IN [object |-> [object EXCEPT
                    !.tiles.data[local_tile_index].alpha_tile_index = fresh],
                next |-> next_index + 1,
                index |-> fresh]

\* BuiltObject::add_fill allocating the alpha tile before the cull of
\* degenerate fills: a fill dropped for from_x = to_x has taken an index.
AddFillAllocatesFirst(object, next_index, segment, tile_coords) ==
    IF TileCoordsToLocalIndex(object, tile_coords) = <<>>
    THEN [object |-> object, next |-> next_index]
    ELSE LET from_x == ToFixed(segment.from_x, tile_coords[1])
             from_y == ToFixed(segment.from_y, tile_coords[2])
             to_x == ToFixed(segment.to_x, tile_coords[1])
             to_y == ToFixed(segment.to_y, tile_coords[2])
             got == GetOrAllocateAlphaTileIndex(object, next_index, tile_coords)
             fill == [px |-> [from |-> PackPx(from_x, from_y),
                              to |-> PackPx(to_x, to_y)],
                      subpx |-> [from_x |-> from_x % 256,
                                 from_y |-> from_y % 256,
                                 to_x |-> to_x % 256,
                                 to_y |-> to_y % 256],
                      alpha_tile_index |-> got.index]
         IN IF from_x = to_x
            THEN [object |-> got.object, next |-> got.next]
            ELSE [object |-> [got.object EXCEPT !.fills = Append(@, fill)],
                  next |-> got.next]

\* BuiltObject::add_fill taking alpha-tile index 0 for "no tile": the index is
\* allocated and the fill dropped.
AddFillDropsIndexZero(object, next_index, segment, tile_coords) ==
    IF TileCoordsToLocalIndex(object, tile_coords) = <<>>
    THEN [object |-> object, next |-> next_index]
    ELSE LET from_x == ToFixed(segment.from_x, tile_coords[1])
             from_y == ToFixed(segment.from_y, tile_coords[2])
             to_x == ToFixed(segment.to_x, tile_coords[1])
             to_y == ToFixed(segment.to_y, tile_coords[2])
         IN IF from_x = to_x
            THEN [object |-> object, next |-> next_index]
            ELSE LET got == GetOrAllocateAlphaTileIndex(object, next_index, tile_coords)
                     fill == [px |-> [from |-> PackPx(from_x, from_y),
                                      to |-> PackPx(to_x, to_y)],
                              subpx |-> [from_x |-> from_x % 256,
                                         from_y |-> from_y % 256,
                                         to_x |-> to_x % 256,
                                         to_y |-> to_y % 256],
                              alpha_tile_index |-> got.index]
                 IN IF got.index = 0
                    THEN [object |-> got.object, next |-> got.next]
                    ELSE [object |-> [got.object EXCEPT !.fills = Append(@, fill)],
                          next |-> got.next]

\* BuiltObject::add_fill: the object and the builder's next_alpha_tile_index
\* after the call.
AddFill(object, next_index, segment, tile_coords) ==
    IF TileCoordsToLocalIndex(object, tile_coords) = <<>>
    THEN [object |-> object, next |-> next_index]
    ELSE LET from_x == ToFixed(segment.from_x, tile_coords[1])
             from_y == ToFixed(segment.from_y, tile_coords[2])
             to_x == ToFixed(segment.to_x, tile_coords[1])
             to_y == ToFixed(segment.to_y, tile_coords[2])
         IN IF from_x = to_x
            THEN [object |-> object, next |-> next_index]
            ELSE LET got == GetOrAllocateAlphaTileIndex(object, next_index, tile_coords)
                     fill == [px |-> [from |-> PackPx(from_x, from_y),
                                      to |-> PackPx(to_x, to_y)],
                              subpx |-> [from_x |-> from_x % 256,
                                         from_y |-> from_y % 256,
                                         to_x |-> to_x % 256,
                                         to_y |-> to_y % 256],
                              alpha_tile_index |-> got.index]
                 IN [object |-> [got.object EXCEPT !.fills = Append(@, fill)],
                     next |-> got.next]

RECURSIVE AddActiveFillLoop(_, _, _, _, _)
\* The loop of BuiltObject::add_active_fill: one add_fill per step of the
\* winding towards 0.
AddActiveFillLoop(object, next_index, segment, winding, tile_coords) ==
    IF winding = 0
    THEN [object |-> object, next |-> next_index]
    ELSE LET r == AddFill(object, next_index, segment, tile_coords)
         IN AddActiveFillLoop(r.object, r.next, segment,
                              IF winding < 0 THEN winding + 1 ELSE winding - 1,
                              tile_coords)

\* BuiltObject::add_active_fill with the segment oriented the same way whatever
\* the sign of the winding.
AddActiveFillOneWay(object, next_index, left, right, winding, tile_coords) ==
    LET tile_origin_y == tile_coords[2] * TILE_HEIGHT * Pixel
        segment == Segment(left, tile_origin_y, right, tile_origin_y)
    IN AddActiveFillLoop(object, next_index, segment, winding, tile_coords)

\* BuiltObject::add_active_fill: the object and the builder's
\* next_alpha_tile_index after the call.
AddActiveFill(object, next_index, left, right, winding, tile_coords) ==
    LET tile_origin_y == tile_coords[2] * TILE_HEIGHT * Pixel
        segment == IF winding < 0
                   THEN Segment(left, tile_origin_y, right, tile_origin_y)
                   ELSE Segment(right, tile_origin_y, left, tile_origin_y)
    IN AddActiveFillLoop(object, next_index, segment, winding, tile_coords)

\* f32::floor followed by `as i32`: the whole pixels of a coordinate, rounded
\* down.
FloorI32(v) == v \div Pixel

\* f32::ceil followed by `as i32`: the whole pixels of a coordinate, rounded up.
CeilI32(v) == 0 - ((0 - v) \div Pixel)

\* The `/` of two i32: the quotient rounded towards zero.
DivI32(a, b) == IF a >= 0 THEN a \div b ELSE 0 - ((0 - a) \div b)

\* util::alignup_i32: a in units of b, rounded up.
AlignupI32(a, b) == 0 - ((0 - a) \div b)

\* LineSegment2F::solve_y_for_x: the y of the segment's line at x, by linear
\* interpolation between its end points.
SolveYForX(segment, x) ==
    LET dx == segment.to_x - segment.from_x
        num == (segment.to_y - segment.from_y) * (x - segment.from_x)
    IN segment.from_y + (IF dx > 0 THEN num \div dx ELSE (0 - num) \div (0 - dx))

\* One turn of the loop of generate_fill_primitives_for_line that leaves
\* `segment` as it was after a cut.
LineStepKeepsSegment(segment, subsegment_tile_x, segment_right, winding, tile_y) ==
    LET subsegment_tile_right == (subsegment_tile_x + 1) * TILE_HEIGHT * Pixel
        x == subsegment_tile_right
        y == SolveYForX(segment, x)
        cut == subsegment_tile_right < segment_right
        fill_segment ==
            IF ~cut THEN segment
            ELSE IF ~winding THEN Segment(segment.from_x, segment.from_y, x, y)
            ELSE Segment(x, y, segment.to_x, segment.to_y)
    IN [add |-> [segment |-> fill_segment,
                 tile_coords |-> <<subsegment_tile_x, tile_y>>],
        segment |-> segment]

\* One turn of the loop of generate_fill_primitives_for_line, for column
\* subsegment_tile_x: the add_fill call it makes and `segment` after it.
LineStep(segment, subsegment_tile_x, segment_right, winding, tile_y) ==
    LET subsegment_tile_right == (subsegment_tile_x + 1) * TILE_HEIGHT * Pixel
        x == subsegment_tile_right
        y == SolveYForX(segment, x)
        cut == subsegment_tile_right < segment_right
        fill_segment ==
            IF ~cut THEN segment
            ELSE IF ~winding THEN Segment(segment.from_x, segment.from_y, x, y)
            ELSE Segment(x, y, segment.to_x, segment.to_y)
        rest ==
            IF ~cut THEN segment
            ELSE IF ~winding THEN Segment(x, y, segment.to_x, segment.to_y)
            ELSE Segment(segment.from_x, segment.from_y, x, y)
    IN [add |-> [segment |-> fill_segment,
                 tile_coords |-> <<subsegment_tile_x, tile_y>>],
        segment |-> rest]

RECURSIVE LineLoop(_, _, _, _, _, _)
\* The loop of generate_fill_primitives_for_line over the columns from
\* subsegment_tile_x up to segment_tile_right: the add_fill calls it makes.
LineLoop(segment, subsegment_tile_x, segment_tile_right, segment_right, winding, tile_y) ==
    IF subsegment_tile_x >= segment_tile_right
    THEN <<>>
    ELSE LET step == LineStep(segment, subsegment_tile_x, segment_right, winding, tile_y)
         IN <<step.add>> \o LineLoop(step.segment, subsegment_tile_x + 1,
                                      segment_tile_right, segment_right, winding, tile_y)

\* The add_fill calls of generate_fill_primitives_for_line(segment, tile_y), in
\* order.
LineAddFills(segment, tile_y) ==
    LET winding == segment.from_x > segment.to_x
        segment_left == IF ~winding THEN segment.from_x ELSE segment.to_x
        segment_right == IF ~winding THEN segment.to_x ELSE segment.from_x
        segment_tile_left == DivI32(FloorI32(segment_left), TILE_WIDTH)
        segment_tile_right == AlignupI32(CeilI32(segment_right), TILE_WIDTH)
    IN LineLoop(segment, segment_tile_left, segment_tile_right, segment_right,
                winding, tile_y)

RECURSIVE AddFillEach(_, _, _)
\* add_fill for each call of a sequence.
AddFillEach(object, next_index, adds) ==
    IF adds = <<>>
    THEN [object |-> object, next |-> next_index]
    ELSE LET r == AddFill(object, next_index, Head(adds).segment, Head(adds).tile_coords)
         IN AddFillEach(r.object, r.next, Tail(adds))

\* BuiltObject::generate_fill_primitives_for_line: the object and the builder's
\* next_alpha_tile_index after the call.
GenerateFillPrimitivesForLine(object, next_index, segment, tile_y) ==
    AddFillEach(object, next_index, LineAddFills(segment, tile_y))

\* ---------------------------------------------------------- tiles.rs: Tiler

\* Tiler::new.
TilerNew(outline, view_box, object_index, paint_id, object_is_opaque) ==
    [outline |-> outline,
     object_index |-> object_index,
     paint_id |-> paint_id,
     object_is_opaque |-> object_is_opaque,
     built_object |-> BuiltObjectNew(OutlineBounds(outline))]

\* The edge of an outline that crosses tile column x: it runs down the tile
\* from right to left, where depends on the shape, and dilation moves its ends
\* outwards.
EdgeAt(outline, x) ==
    LET inset == IF outline.shape = "knot" THEN 2 ELSE 0
    IN Segment((x * TILE_WIDTH + 12 - inset + outline.dilation) * Pixel, 0,
               (x * TILE_WIDTH + 4 - inset - outline.dilation) * Pixel,
               TILE_HEIGHT * Pixel)

HasEdge(outline, x) == KindAt(outline, x) \in {"edge", "coveredEdge"}
HasBackdrop(outline, x) == KindAt(outline, x) \in {"solid", "coveredEdge"}

\* The columns of the tiler's tile rect.
TilerCols(tiler) ==
    tiler.built_object.tiles.rect.lo..(tiler.built_object.tiles.rect.hi - 1)

\* The columns at or after `at` where the tiler emits fills.
FillCols(tiler, at) == {x \in TilerCols(tiler) : x >= at /\ HasEdge(tiler.outline, x)}

\* The columns at or after `at` that the tiler records in the z-buffer: opaque
\* object, no alpha tile allocated, non-zero backdrop.
SolidCols(tiler, at) ==
    {x \in TilerCols(tiler) :
        /\ x >= at
        /\ tiler.object_is_opaque
        /\ ~HasEdge(tiler.outline, x)
        /\ HasBackdrop(tiler.outline, x)}

\* Tiler::generate_fills for one tile column: the edge goes to add_fill.
TilerFillCol(tiler, next_index, x) ==
    LET r == AddFill(tiler.built_object, next_index, EdgeAt(tiler.outline, x), Tile(x))
    IN [tiler |-> [tiler EXCEPT !.built_object = r.object], next |-> r.next]

\* Tiler::pack_and_cull, the alpha tiles: one per tile with an allocated
\* alpha-tile index, in tile order.
PackAlphaTiles(tiler) ==
    LET object == tiler.built_object
        used == {i \in DOMAIN object.tiles.data :
                    object.tiles.data[i].alpha_tile_index # U16_MAX}
        order == SeqOfSet(used)
    IN [k \in 1..Len(order) |->
           LET x == object.tiles.rect.lo + order[k] - 1
           IN AlphaTileNew(Tile(x),
                           IF HasBackdrop(tiler.outline, x) THEN 1 ELSE 0,
                           tiler.object_index, tiler.paint_id)]

\* ------------------------------------------------------ builder.rs: SceneBuilder

\* SceneBuilder::cull_alpha_tiles.
CullAlphaTiles(z, alpha_tiles) ==
    [k \in 1..Len(alpha_tiles) |->
        IF ZBufferTest(z, AlphaTileCoords(alpha_tiles[k]), alpha_tiles[k].object_index)
        THEN alpha_tiles[k]
        ELSE [alpha_tiles[k] EXCEPT !.tile_x_lo = CULLED,
                                    !.tile_y_lo = CULLED,
                                    !.tile_hi = CULLED]]

\* SceneTiles::new.
SceneTilesNew(alpha_tiles, z, paths) ==
    [alpha |-> alpha_tiles, solid |-> BuildSolidTiles(z, paths)]

\* SceneBuilder::finish_building, the tiles it returns.
FinishBuilding(z, alpha_tiles, paths) ==
    SceneTilesNew(CullAlphaTiles(z, alpha_tiles), z, paths)

\* SceneBuilder::build sending the paint data before Start.
BuildProloguePaintFirst(transform, scene_) ==
    << [type |-> "AddPaintData", paint_data |-> scene_.paints],
       [type |-> "Start", bounding_quad |-> BoundingQuad(transform),
        path_count |-> Len(scene_.paths)] >>

\* The commands SceneBuilder::build sends before it starts the path tasks.
BuildPrologue(transform, scene_) ==
    << [type |-> "Start", bounding_quad |-> BoundingQuad(transform),
        path_count |-> Len(scene_.paths)],
       [type |-> "AddPaintData", paint_data |-> scene_.paints] >>

\* SceneTiles::send with the two sends swapped.
SceneTilesSendAlphaFirst(tiles) ==
    (IF tiles.alpha # <<>> THEN << [type |-> "AlphaTile", tiles |-> tiles.alpha] >>
     ELSE <<>>)
    \o
    (IF tiles.solid # <<>> THEN << [type |-> "SolidTile", tiles |-> tiles.solid] >>
     ELSE <<>>)

\* SceneTiles::send without the tests for an empty batch.
SceneTilesSendUnconditional(tiles) ==
    << [type |-> "SolidTile", tiles |-> tiles.solid],
       [type |-> "AlphaTile", tiles |-> tiles.alpha] >>

\* SceneTiles::send, the commands sent.
SceneTilesSend(tiles) ==
    (IF tiles.solid # <<>> THEN << [type |-> "SolidTile", tiles |-> tiles.solid] >>
     ELSE <<>>)
    \o
    (IF tiles.alpha # <<>> THEN << [type |-> "AlphaTile", tiles |-> tiles.alpha] >>
     ELSE <<>>)

\* The commands SceneManager::build sends once it has the tiles.
BuildEpilogue(tiles, build_time) ==
    SceneTilesSend(tiles) \o << [type |-> "Finish", build_time |-> build_time] >>

\* Executor::flatten_into_vector concatenating in the order the calls finished.
FlattenInArrivalOrder(results, order) ==
    Concat([i \in 1..Len(order) |-> results[order[i]]])

\* Executor::flatten_into_vector: the vectors the calls returned, concatenated in
\* index order; `results` maps the index of a call to its vector and `order` is
\* the order the calls finished in.
FlattenIntoVector(results, order) ==
    Concat([i \in 1..Len(order) |-> results[i - 1]])

\* ------------------------------------------------------------------ the state

VARIABLES
    scene,                  \* SceneManager.scene
    cached_data,            \* SceneManager.cached_data: <<>> or <<CachedData>>
    cache_policy,           \* SceneManager.cache_policy
    render_transform,       \* SceneManager.render_transform
    options,                \* SceneManager.options
    phase,                  \* "idle", "building", "done" or "aborted"
    transform,              \* SceneBuilder.transform of the build under way
    next_alpha_tile_index,  \* SceneBuilder.next_alpha_tile_index
    z_buffer,               \* SceneBuilder.z_buffer
    task,                   \* the build_path call of each path index
    arrival,                \* the path indices in the order their calls returned
    log,                    \* the commands the listener of this call has received
    rebuilt,                \* whether this call of build ran SceneBuilder::build
    prev,                   \* what the call before sent as tiles and the matrix it
                            \* had, if it ran under OnTranslation with a 2D
                            \* transform; else <<>>
    call,                   \* the last call made on the Scene by its owner or on
                            \* a BuiltObject by its tiler, with its arguments,
                            \* what it returned and, for a tiler's call, how many
                            \* calls the tilers have made; <<>> if none
    built_with              \* the scene and the options the tiles in cached_data
                            \* were built from; <<>> while cached_data is None

manager == <<scene, cached_data, cache_policy, render_transform, options>>
builder == <<transform, next_alpha_tile_index, z_buffer, task, arrival>>
vars == <<manager, phase, builder, log, rebuilt, prev, call, built_with>>

CachePolicies == {"Never", "OnTranslation"}
Transforms2D == [matrix : 1..MaxScale, vector : 0..MaxShift]
Perspectives == {"front", "behind"}
Dilations == 0..MaxDilation

\* The ids a caller can give a path: those of the paints pushed and one more.
PaintIds == 0..Cardinality(PaintValues)

\* The paths a caller pushes: the rectangle with every paint id, the other
\* shapes with the first paint.
PathValues ==
    {PathObjectNew(OutlineOf("rect"), id) : id \in PaintIds}
    \cup {PathObjectNew(OutlineOf(s), 0) : s \in Shapes}

RECURSIVE PushPaths(_, _)
\* The scene after push_path of each path of a sequence.
PushPaths(scene_, paths) ==
    IF paths = <<>> THEN scene_
    ELSE PushPaths(PushPath(scene_, Head(paths)), Tail(paths))

\* The scenes a build starts from: both paints pushed, the view box set, and up
\* to MaxPaths paths pushed.
InitScenes ==
    LET painted == PushPaintScene(PushPaintScene(SceneNew, Red), Glass)
        viewed == SetViewBox(painted, [lo |-> 0, hi |-> MaxViewW])
    IN {PushPaths(viewed, paths) :
           paths \in UNION {[1..n -> PathValues] : n \in 0..MaxPaths}}

\* No build_path call.
NoTasks == [p \in {} |-> [pc |-> "start"]]

\* The builder's fields when no build is under way.
NoBuilder ==
    /\ transform' = [kind |-> "None"]
    /\ next_alpha_tile_index' = 0
    /\ z_buffer' = ZBufferNew(RectDefault)
    /\ task' = NoTasks
    /\ arrival' = <<>>

\* SceneManager::from_scene.
Init ==
    /\ scene \in InitScenes
    /\ cached_data = <<>>
    /\ cache_policy = "Never"
    /\ render_transform = RenderTransform2D(Transform2DDefault)
    /\ options = BuildOptionsDefault
    /\ phase = "idle"
    /\ transform = [kind |-> "None"]
    /\ next_alpha_tile_index = 0
    /\ z_buffer = ZBufferNew(RectDefault)
    /\ task = NoTasks
    /\ arrival = <<>>
    /\ log = <<>>
    /\ rebuilt = FALSE
    /\ prev = <<>>
    /\ call = <<>>
    /\ built_with = <<>>

\* ------------------------------------------------------- SceneManager setters

\* SceneManager::set_cache_policy.
SetCachePolicy(new_cache_policy) ==
    /\ phase = "idle"
    /\ cache_policy' = new_cache_policy
    /\ UNCHANGED <<scene, cached_data, render_transform, options, phase, builder,
                   log, rebuilt, prev, call, built_with>>

\* SceneManager::set_2d_transform.
Set2DTransform(new_transform) ==
    /\ phase = "idle"
    /\ render_transform' = RenderTransform2D(new_transform)
    /\ UNCHANGED <<scene, cached_data, cache_policy, options, phase, builder,
                   log, rebuilt, prev, call, built_with>>

\* SceneManager::set_perspective_transform.
SetPerspectiveTransform(new_perspective) ==
    /\ phase = "idle"
    /\ render_transform' = RenderPerspective(new_perspective)
    /\ UNCHANGED <<scene, cached_data, cache_policy, options, phase, builder,
                   log, rebuilt, prev, call, built_with>>

\* SceneManager::set_dilation.
SetDilation(new_dilation) ==
    /\ phase = "idle"
    /\ options' = [options EXCEPT !.dilation = new_dilation]
    /\ UNCHANGED <<scene, cached_data, cache_policy, render_transform, phase,
                   builder, log, rebuilt, prev, call, built_with>>

\* SceneManager::set_subpixel_aa_enabled.
SetSubpixelAaEnabled(enabled) ==
    /\ phase = "idle"
    /\ options' = [options EXCEPT !.subpixel_aa_enabled = enabled]
    /\ UNCHANGED <<scene, cached_data, cache_policy, render_transform, phase,
                   builder, log, rebuilt, prev, call, built_with>>

\* ------------------------------------------------------- SceneManager::build

\* The dirty branch up to the start of the path tasks: the transform is
\* prepared, SceneBuilder::new makes the counter and the z-buffer, and
\* SceneBuilder::build sends Start and AddPaintData and hands the paths to the
\* executor.
BuildRebuild ==
    /\ phase = "idle"
    /\ SceneIsDirty(cache_policy, render_transform, cached_data)
    /\ LET prepared == Prepare(render_transform, scene.bounds)
       IN /\ transform' = prepared
          /\ log' = BuildPrologue(prepared, scene)
    /\ next_alpha_tile_index' = 0
    /\ z_buffer' = ZBufferNew(EffectiveViewBox(scene, options))
    /\ task' = [p \in 0..(Len(scene.paths) - 1) |-> [pc |-> "start"]]
    /\ arrival' = <<>>
    /\ rebuilt' = TRUE
    /\ phase' = "building"
    /\ UNCHANGED <<manager, prev, call, built_with>>

\* The clean branch, whole: the cached tiles are sent, then Finish with a
\* build time of Duration::default().
BuildReuse ==
    /\ phase = "idle"
    /\ ~SceneIsDirty(cache_policy, render_transform, cached_data)
    /\ log' = BuildEpilogue(cached_data[1].tiles, 0)
    /\ rebuilt' = FALSE
    /\ phase' = "done"
    /\ UNCHANGED <<manager, builder, prev, call, built_with>>

\* Where a tiler goes on after the fills of the columns before `at`: to the
\* next column with an edge, else to the first z-buffer update, else to the send.
AfterFills(tiler, at) ==
    IF FillCols(tiler, at) # {}
    THEN [pc |-> "fills", at |-> SeqOfSet(FillCols(tiler, at))[1], tiler |-> tiler]
    ELSE IF SolidCols(tiler, tiler.built_object.tiles.rect.lo) # {}
    THEN [pc |-> "pack",
          at |-> SeqOfSet(SolidCols(tiler, tiler.built_object.tiles.rect.lo))[1],
          tiler |-> tiler]
    ELSE [pc |-> "send", at |-> 0, tiler |-> tiler]

\* Where a tiler goes on after the z-buffer updates of the columns before `at`.
AfterPack(tiler, at) ==
    IF SolidCols(tiler, at) # {}
    THEN [pc |-> "pack", at |-> SeqOfSet(SolidCols(tiler, at))[1], tiler |-> tiler]
    ELSE [pc |-> "send", at |-> 0, tiler |-> tiler]

\* SceneBuilder::build_path up to generate_tiles: the outline is prepared, the
\* paint looked up (a paint id past the end of paints panics) and the tiler made.
BuildPathBegin(p) ==
    /\ phase = "building"
    /\ p \in DOMAIN task
    /\ task[p].pc = "start"
    /\ LET path_object == scene.paths[p + 1]
           outline == ApplyRenderOptions(scene, path_object.outline, transform, options)
           paint_id == path_object.paint
       IN IF paint_id >= Len(scene.paints)
          THEN task' = [task EXCEPT ![p] = [pc |-> "panicked"]]
          ELSE task' = [task EXCEPT ![p] =
                   AfterFills(TilerNew(outline,
                                       EffectiveViewBox(scene, options),
                                       p % (U16_MAX + 1),
                                       paint_id,
                                       IsOpaque(scene.paints[paint_id + 1])),
                              0 - MaxCol)]
    /\ UNCHANGED <<manager, phase, transform, next_alpha_tile_index, z_buffer,
                   arrival, log, rebuilt, prev, call, built_with>>

\* Tiler::generate_tiles, the fills of one tile column: add_fill allocates the
\* tile's alpha-tile index from the shared counter and pushes the fill.
TilerFills(p) ==
    /\ phase = "building"
    /\ p \in DOMAIN task
    /\ task[p].pc = "fills"
    /\ LET r == TilerFillCol(task[p].tiler, next_alpha_tile_index, task[p].at)
       IN /\ next_alpha_tile_index' = r.next
          /\ task' = [task EXCEPT ![p] = AfterFills(r.tiler, task[p].at + 1)]
    /\ UNCHANGED <<manager, phase, transform, z_buffer, arrival, log, rebuilt, prev, call, built_with>>

\* Tiler::pack_and_cull, one solid tile of an opaque object: the z-buffer cell
\* is raised.
TilerPack(p) ==
    /\ phase = "building"
    /\ p \in DOMAIN task
    /\ task[p].pc = "pack"
    /\ z_buffer' = ZBufferUpdate(z_buffer, Tile(task[p].at), task[p].tiler.object_index)
    /\ task' = [task EXCEPT ![p] = AfterPack(task[p].tiler, task[p].at + 1)]
    /\ UNCHANGED <<manager, phase, transform, next_alpha_tile_index, arrival, log,
                   rebuilt, prev, call, built_with>>

\* The end of SceneBuilder::build_path: the fills go to the listener as one
\* AddFills and the alpha tiles are returned to the executor.
BuildPathSend(p) ==
    /\ phase = "building"
    /\ p \in DOMAIN task
    /\ task[p].pc = "send"
    /\ log' = Append(log, [type |-> "AddFills",
                           fills |-> task[p].tiler.built_object.fills])
    /\ task' = [task EXCEPT ![p] =
                   [pc |-> "done", ret |-> PackAlphaTiles(task[p].tiler)]]
    /\ arrival' = Append(arrival, p)
    /\ UNCHANGED <<manager, phase, transform, next_alpha_tile_index, z_buffer,
                   rebuilt, prev, call, built_with>>

\* The tiles a finished SceneBuilder::build returns.
BuiltTiles ==
    FinishBuilding(z_buffer,
                   FlattenIntoVector([p \in DOMAIN task |-> task[p].ret], arrival),
                   scene.paths)

\* The cached data after a rebuild, stored whatever the cache policy.
StoreCacheAlways(cache_policy_, render_transform_, cached_data_, tiles) ==
    IF render_transform_.kind = "Transform2D"
    THEN << [transform |-> render_transform_.transform, tiles |-> tiles] >>
    ELSE cached_data_

\* The cached data after a rebuild that returned `tiles`.
StoreCache(cache_policy_, render_transform_, cached_data_, tiles) ==
    IF render_transform_.kind = "Transform2D" /\ cache_policy_ = "OnTranslation"
    THEN << [transform |-> render_transform_.transform, tiles |-> tiles] >>
    ELSE cached_data_

\* The dirty branch once every path task has returned: finish_building sends
\* FlushFills, culls the alpha tiles and builds the solid tiles; build stores the
\* tiles in the cache if the policy asks for it, sends them and sends Finish.
BuildFinish ==
    /\ phase = "building"
    /\ \A p \in DOMAIN task : task[p].pc = "done"
    /\ \E build_time \in 0..MaxElapsed :
          log' = log \o << [type |-> "FlushFills"] >>
                     \o BuildEpilogue(BuiltTiles, build_time)
    /\ cached_data' = StoreCache(cache_policy, render_transform, cached_data, BuiltTiles)
    /\ built_with' = IF render_transform.kind = "Transform2D"
                        /\ cache_policy = "OnTranslation"
                     THEN << [scene |-> scene, options |-> options] >>
                     ELSE built_with
    /\ phase' = "done"
    /\ UNCHANGED <<scene, cache_policy, render_transform, options, builder,
                   rebuilt, prev, call>>

\* A panic of a build_path call unwinds SceneManager::build once no call is
\* running; calls that have not started are dropped.
BuildAbort ==
    /\ phase = "building"
    /\ \E p \in DOMAIN task : task[p].pc = "panicked"
    /\ \A p \in DOMAIN task : task[p].pc \in {"start", "done", "panicked"}
    /\ phase' = "aborted"
    /\ UNCHANGED <<manager, builder, log, rebuilt, prev, call, built_with>>

\* What a call of build sent as tiles: the SolidTile and AlphaTile commands.
TilePayload(log_) ==
    SelectSeq(log_, LAMBDA c : c.type \in {"SolidTile", "AlphaTile"})

\* SceneManager::build returns: the builder and the listener are dropped.
BuildReturn ==
    /\ phase = "done"
    /\ phase' = "idle"
    /\ NoBuilder
    /\ log' = <<>>
    /\ prev' = IF cache_policy = "OnTranslation" /\ render_transform.kind = "Transform2D"
               THEN << [matrix |-> render_transform.transform.matrix,
                        payload |-> TilePayload(log)] >>
               ELSE <<>>
    /\ UNCHANGED <<manager, rebuilt, call, built_with>>

Next ==
    \/ \E c \in CachePolicies : SetCachePolicy(c)
    \/ \E t \in Transforms2D : Set2DTransform(t)
    \/ \E q \in Perspectives : SetPerspectiveTransform(q)
    \/ \E d \in Dilations : SetDilation(d)
    \/ \E e \in BOOLEAN : SetSubpixelAaEnabled(e)
    \/ BuildRebuild
    \/ BuildReuse
    \/ \E p \in 0..(MaxPaths - 1) : BuildPathBegin(p)
    \/ \E p \in 0..(MaxPaths - 1) : TilerFills(p)
    \/ \E p \in 0..(MaxPaths - 1) : TilerPack(p)
    \/ \E p \in 0..(MaxPaths - 1) : BuildPathSend(p)
    \/ BuildFinish
    \/ BuildAbort
    \/ BuildReturn

Spec == Init /\ [][Next]_vars

\* The executor runs every call it was given and returns once all have
\* returned; build itself runs on without waiting for anything.
Fairness ==
    /\ \A p \in 0..(MaxPaths - 1) :
          /\ WF_vars(BuildPathBegin(p))
          /\ WF_vars(TilerFills(p))
          /\ WF_vars(TilerPack(p))
          /\ WF_vars(BuildPathSend(p))
    /\ WF_vars(BuildFinish)
    /\ WF_vars(BuildAbort)
    /\ WF_vars(BuildReturn)

FairSpec == Spec /\ Fairness

\* ------------------------------------------------------- calls on a Scene

\* The outlines a caller pushes: a triangle in tile column 0, the same triangle
\* moved to tile column 1, and a rectangle from column 0 on.
SceneOutlines ==
    {OutlineOf("tri"),
     OutlineTransform(OutlineOf("tri"), [matrix |-> 1, vector |-> 1]),
     OutlineOf("rect")}

\* The paths a caller pushes onto a scene under construction.
ScenePathValues == {PathObjectNew(o, id) : o \in SceneOutlines, id \in 0..1}

\* SceneManager::new: a manager of Scene::new().
SceneInit ==
    /\ scene = SceneNew
    /\ cached_data = <<>>
    /\ cache_policy = "Never"
    /\ render_transform = RenderTransform2D(Transform2DDefault)
    /\ options = BuildOptionsDefault
    /\ phase = "idle"
    /\ transform = [kind |-> "None"]
    /\ next_alpha_tile_index = 0
    /\ z_buffer = ZBufferNew(RectDefault)
    /\ task = NoTasks
    /\ arrival = <<>>
    /\ log = <<>>
    /\ rebuilt = FALSE
    /\ prev = <<>>
    /\ call = <<>>
    /\ built_with = <<>>

\* A call of Scene::push_paint on the manager's public scene.
ScenePushPaint(paint) ==
    /\ phase = "idle"
    /\ scene' = PushPaintScene(scene, paint)
    /\ call' = [op |-> "push_paint", paint |-> paint,
                ret |-> PushPaintId(scene, paint)]
    /\ UNCHANGED <<cached_data, cache_policy, render_transform, options, phase,
                   builder, log, rebuilt, prev, built_with>>

\* A call of Scene::push_path on the manager's public scene.
ScenePushPath(path) ==
    /\ phase = "idle"
    /\ Len(scene.paths) < MaxPaths
    /\ scene' = PushPath(scene, path)
    /\ call' = [op |-> "push_path", path |-> path]
    /\ UNCHANGED <<cached_data, cache_policy, render_transform, options, phase,
                   builder, log, rebuilt, prev, built_with>>

SceneNext ==
    \/ \E paint \in PaintValues : ScenePushPaint(paint)
    \/ \E path \in ScenePathValues : ScenePushPath(path)

\* A scene under construction: push_paint and push_path in any order.
SceneSpec == SceneInit /\ [][SceneNext]_vars

\* ------------------------------------------------ calls on the BuiltObjects

\* The x coordinates the tilers pass: left of the object, inside tile 0 off
\* the fixed-point grid, inside tile 1.
FillXs == {0 - Pixel, 5 * Pixel + 75, 20 * Pixel + 2}

\* The y coordinates the tilers pass: inside the tile row, and its lower border.
FillYs == {9 * Pixel + 401, TILE_HEIGHT * Pixel}

\* The segments the tilers pass to add_fill: from one height to the other.
FillSegments ==
    {Segment(fx, ys[1], tx, ys[2]) :
        fx \in FillXs, tx \in FillXs,
        ys \in {yy \in FillYs \X FillYs : yy[1] # yy[2]}}

\* The tiles the tilers name: those of the objects and one past their right end.
FillTileCoords == {Tile(x) : x \in 0..FillTiles}

\* The scene of two opaque rectangles whose build the calls belong to.
FillScene ==
    LET painted == PushPaintScene(SceneNew, Red)
        viewed == SetViewBox(painted, [lo |-> 0, hi |-> FillTiles])
        path == PathObjectNew(OutlineOf("rect"), PushPaintId(SceneNew, Red))
    IN PushPath(PushPath(viewed, path), path)

\* The tiler build_path makes for path p of FillScene.
FillTiler(p) ==
    LET path_object == FillScene.paths[p + 1]
    IN TilerNew(ApplyRenderOptions(FillScene, path_object.outline,
                                   [kind |-> "None"], BuildOptionsDefault),
                EffectiveViewBox(FillScene, BuildOptionsDefault),
                p % (U16_MAX + 1),
                path_object.paint,
                IsOpaque(FillScene.paints[path_object.paint + 1]))

\* A rebuild of FillScene in which both build_path calls have made their
\* tilers; the counter is at 0, or at u16::MAX - 1 for a build whose other
\* paths have taken that many alpha tiles.
FillInit ==
    /\ scene = FillScene
    /\ cached_data = <<>>
    /\ cache_policy = "Never"
    /\ render_transform = RenderTransform2D(Transform2DDefault)
    /\ options = BuildOptionsDefault
    /\ phase = "building"
    /\ transform = [kind |-> "None"]
    /\ next_alpha_tile_index \in {0, U16_MAX - 1}
    /\ z_buffer = ZBufferNew(EffectiveViewBox(FillScene, BuildOptionsDefault))
    /\ task = [p \in 0..1 |-> [pc |-> "fills", at |-> 0, tiler |-> FillTiler(p)]]
    /\ arrival = <<>>
    /\ log = BuildPrologue([kind |-> "None"], FillScene)
    /\ rebuilt = TRUE
    /\ prev = <<>>
    /\ call = <<>>
    /\ built_with = <<>>

\* The calls the tilers have made so far.
CallCount == IF call = <<>> THEN 0 ELSE call.n

\* The tiler of path p calls add_fill on its object.
FillAddFill(p, segment, tile_coords) ==
    /\ phase = "building"
    /\ CallCount < MaxCalls
    /\ LET r == AddFill(task[p].tiler.built_object, next_alpha_tile_index,
                        segment, tile_coords)
       IN /\ task' = [task EXCEPT ![p].tiler.built_object = r.object]
          /\ next_alpha_tile_index' = r.next
    /\ call' = [op |-> "add_fill", n |-> CallCount + 1, p |-> p,
                segment |-> segment, tile_coords |-> tile_coords]
    /\ UNCHANGED <<manager, phase, transform, z_buffer, arrival, log, rebuilt, prev, built_with>>

\* The tiler of path p calls add_active_fill on its object.
FillAddActiveFill(p, left, right, winding, tile_coords) ==
    /\ phase = "building"
    /\ CallCount < MaxCalls
    /\ LET r == AddActiveFill(task[p].tiler.built_object, next_alpha_tile_index,
                              left, right, winding, tile_coords)
       IN /\ task' = [task EXCEPT ![p].tiler.built_object = r.object]
          /\ next_alpha_tile_index' = r.next
    /\ call' = [op |-> "add_active_fill", n |-> CallCount + 1, p |-> p,
                left |-> left, right |-> right, winding |-> winding,
                tile_coords |-> tile_coords]
    /\ UNCHANGED <<manager, phase, transform, z_buffer, arrival, log, rebuilt, prev, built_with>>

\* The x coordinates of the lines the tilers split: those above and one two
\* tiles left of the object.
LineXs == FillXs \cup {0 - (20 * Pixel + 3)}

\* The lines the tilers split into fills: from one height to the other.
LineSegments ==
    {Segment(fx, ys[1], tx, ys[2]) :
        fx \in LineXs, tx \in LineXs,
        ys \in {yy \in FillYs \X FillYs : yy[1] # yy[2]}}

\* The tiler of path p calls generate_fill_primitives_for_line on its object.
FillGenerate(p, segment, tile_y) ==
    /\ phase = "building"
    /\ CallCount < MaxCalls
    /\ LET r == GenerateFillPrimitivesForLine(task[p].tiler.built_object,
                                              next_alpha_tile_index, segment, tile_y)
       IN /\ task' = [task EXCEPT ![p].tiler.built_object = r.object]
          /\ next_alpha_tile_index' = r.next
    /\ call' = [op |-> "generate_fill_primitives_for_line", n |-> CallCount + 1,
                p |-> p, segment |-> segment, tile_y |-> tile_y,
                adds |-> LineAddFills(segment, tile_y)]
    /\ UNCHANGED <<manager, phase, transform, z_buffer, arrival, log, rebuilt, prev, built_with>>

FillNext ==
    \/ \E p \in 0..1, segment \in FillSegments, tile_coords \in FillTileCoords :
          FillAddFill(p, segment, tile_coords)
    \/ \E p \in 0..1, segment \in LineSegments : FillGenerate(p, segment, 0)
    \/ \E p \in 0..1, span \in {xx \in FillXs \X FillXs : xx[1] <= xx[2]},
          winding \in (0 - MaxWinding)..MaxWinding, tile_coords \in FillTileCoords :
          FillAddActiveFill(p, span[1], span[2], winding, tile_coords)

\* Two tilers filling their objects, their calls interleaved in any order; a
\* call touches shared state only in the one fetch_add of the counter.
FillSpec == FillInit /\ [][FillNext]_vars

\* ------------------------------------------------------- reading the listener

\* The types of the commands received, in order.
Types(log_) == [i \in 1..Len(log_) |-> log_[i].type]

\* The commands of one type, in order.
Commands(log_, type) == SelectSeq(log_, LAMBDA c : c.type = type)

\* The fill records received, in order of arrival.
FillsOf(log_) ==
    LET adds == Commands(log_, "AddFills")
    IN Concat([i \in 1..Len(adds) |-> adds[i].fills])

\* The alpha tiles received: the payload of the AlphaTile command, or none.
AlphaOf(log_) ==
    LET cmds == Commands(log_, "AlphaTile")
    IN IF cmds = <<>> THEN <<>> ELSE cmds[1].tiles

\* The solid tiles received: the payload of the SolidTile command, or none.
SolidOf(log_) ==
    LET cmds == Commands(log_, "SolidTile")
    IN IF cmds = <<>> THEN <<>> ELSE cmds[1].tiles

\* The build time of the Finish command received.
BuildTimeOf(log_) == Commands(log_, "Finish")[1].build_time

\* How often a value occurs in a sequence.
Count(s, v) == Cardinality({i \in DOMAIN s : s[i] = v})

\* Two sequences hold the same values the same number of times.
SameBag(s, t) == \A v \in Range(s) \cup Range(t) : Count(s, v) = Count(t, v)

\* s is a prefix of t.
IsPrefix(s, t) == Len(s) <= Len(t) /\ \A i \in 1..Len(s) : s[i] = t[i]

\* The place of a command type in the order of one rebuild.
Rank(type) ==
    CASE type = "Start"        -> 1
      [] type = "AddPaintData" -> 2
      [] type = "AddFills"     -> 3
      [] type = "FlushFills"   -> 4
      [] type = "SolidTile"    -> 5
      [] type = "AlphaTile"    -> 6
      [] type = "Finish"       -> 7

\* The command types every rebuild sends.
Mandatory == {"Start", "AddPaintData", "FlushFills", "Finish"}

\* ------------------------------------------------------------------ C1

\* C1: in a build that rebuilds the tiles the listener receives, under every
\* interleaving of the build_path tasks, Start, AddPaintData, the AddFills
\* commands, FlushFills, at most one SolidTile, at most one AlphaTile and Finish
\* in this order: the types never go back in this order, only AddFills repeats,
\* no command arrives before the mandatory ones that precede it, and the call
\* ends on Finish.
C1_CommandOrder ==
    rebuilt =>
        /\ \A i, j \in 1..Len(log) :
              i < j =>
                 /\ Rank(log[i].type) <= Rank(log[j].type)
                 /\ log[i].type = log[j].type => log[i].type = "AddFills"
        /\ \A j \in 1..Len(log) :
              \A m \in Mandatory :
                 Rank(m) < Rank(log[j].type) =>
                    \E i \in 1..(j - 1) : log[i].type = m
        /\ phase = "done" => log[Len(log)].type = "Finish"

\* A rebuild has ended in which two AddFills, a SolidTile and an AlphaTile came.
C1_Witness ==
    /\ phase = "done"
    /\ rebuilt
    /\ Len(Commands(log, "AddFills")) >= 2
    /\ Commands(log, "SolidTile") # <<>>
    /\ Commands(log, "AlphaTile") # <<>>

\* ------------------------------------------------------------------ C2

\* C2 as stated: the first command the listener receives in any call of build
\* is Start.
C2_StartFirstAlways == log # <<>> => log[1].type = "Start"

\* C2, amended: the first command of a call that rebuilds the tiles is Start; a
\* call that reuses the cached tiles sends no Start, it begins with SolidTile,
\* AlphaTile or Finish.
C2_StartFirstInRebuild ==
    log # <<>> =>
        IF rebuilt
        THEN log[1].type = "Start"
        ELSE /\ Commands(log, "Start") = <<>>
             /\ log[1].type \in {"SolidTile", "AlphaTile", "Finish"}

\* A call that reused the cache has ended: it began with the cached SolidTile.
C2_Witness == phase = "done" /\ ~rebuilt /\ log[1].type = "SolidTile"

\* ------------------------------------------------------------------ C3

\* C3 as stated: every call of build runs to completion, none ends without
\* Finish; a call that has ended sent Finish exactly once and last, with a build
\* time of 0 when it reused the cached tiles.
C3_RunsToCompletion ==
    /\ phase # "aborted"
    /\ phase = "done" =>
          /\ Len(Commands(log, "Finish")) = 1
          /\ log[Len(log)].type = "Finish"
          /\ ~rebuilt => BuildTimeOf(log) = 0

\* ------------------------------------------------------------------ C4

RECURSIVE FillColumns(_, _, _)
\* The tiler and the counter after the fills of a sequence of columns.
FillColumns(tiler, next_index, cols) ==
    IF cols = <<>> THEN [tiler |-> tiler, next |-> next_index]
    ELSE LET r == TilerFillCol(tiler, next_index, Head(cols))
         IN FillColumns(r.tiler, r.next, Tail(cols))

RECURSIVE SequentialFills(_, _)
\* The fill records of a rebuild whose executor runs build_path(p),
\* build_path(p + 1), ... one after the other, from counter value next_index.
SequentialFills(p, next_index) ==
    IF p >= Len(scene.paths) THEN <<>>
    ELSE LET path_object == scene.paths[p + 1]
             outline == ApplyRenderOptions(scene, path_object.outline, transform, options)
             tiler == TilerNew(outline, EffectiveViewBox(scene, options),
                               p % (U16_MAX + 1), path_object.paint,
                               IsOpaque(scene.paints[path_object.paint + 1]))
             r == FillColumns(tiler, next_index, SeqOfSet(FillCols(tiler, 0 - MaxCol)))
         IN r.tiler.built_object.fills \o SequentialFills(p + 1, r.next)

\* A fill record without its alpha-tile index.
Geometry(fill) == [px |-> fill.px, subpx |-> fill.subpx]

\* C4 as stated: the AddFills records of a rebuild are the same multiset,
\* alpha_tile_index included, under every interleaving of the build_path tasks;
\* the one-after-the-other schedule is one of the interleavings.
C4_SameRecords ==
    (phase = "done" /\ rebuilt) => SameBag(FillsOf(log), SequentialFills(0, 0))

\* C4, amended: under every interleaving the AddFills records are the same
\* multiset once alpha_tile_index is left out of each record, and the same set
\* of alpha-tile indices is used; which tile gets which index depends on the
\* schedule.
C4_SameGeometry ==
    (phase = "done" /\ rebuilt) =>
        LET got == FillsOf(log)
            seq == SequentialFills(0, 0)
        IN /\ SameBag([i \in DOMAIN got |-> Geometry(got[i])],
                      [i \in DOMAIN seq |-> Geometry(seq[i])])
           /\ {f.alpha_tile_index : f \in Range(got)}
                 = {f.alpha_tile_index : f \in Range(seq)}

\* A rebuild has ended in which a later path allocated its alpha tile before an
\* earlier one: its records differ from those of the one-after-the-other schedule.
C4_Witness ==
    /\ phase = "done"
    /\ rebuilt
    /\ Len(FillsOf(log)) >= 2
    /\ ~SameBag(FillsOf(log), SequentialFills(0, 0))

\* ------------------------------------------------------------------ C5

\* The vectors the build_path calls returned, build_path(0) first.
ReturnedInIndexOrder ==
    Concat([i \in 1..Len(scene.paths) |-> task[i - 1].ret])

Prepared(p) == ApplyRenderOptions(scene, scene.paths[p + 1].outline, transform, options)

\* Path p has a paint and the paint is opaque.
OpaquePath(p) ==
    /\ scene.paths[p + 1].paint < Len(scene.paints)
    /\ IsOpaque(scene.paints[scene.paths[p + 1].paint + 1])

\* Path p fully covers tile column x.
Covers(p, x) == KindAt(Prepared(p), x) \in {"solid", "coveredEdge"}

\* Path p is the last opaque path for which tile column x is a solid tile.
TopSolid(p, x) ==
    /\ OpaquePath(p)
    /\ KindAt(Prepared(p), x) = "solid"
    /\ \A k \in (p + 1)..(Len(scene.paths) - 1) :
          ~(OpaquePath(k) /\ KindAt(Prepared(k), x) = "solid")

\* C6 as stated (z-cull monotonicity): when opaque paths i < j both fully cover
\* a tile, j being the last path the tile is solid for, the solid batch holds
\* exactly one entry for the tile, with the paint id of path j, and every alpha
\* tile of path i at the tile is shipped with the bytes of its coordinates set to
\* 0xFF.
C6_ZCull ==
    (phase = "done" /\ rebuilt) =>
        \A i, j \in 0..(Len(scene.paths) - 1) :
           \A x \in z_buffer.rect.lo..(z_buffer.rect.hi - 1) :
              (i < j /\ OpaquePath(i) /\ Covers(i, x) /\ TopSolid(j, x)) =>
                 /\ Count([k \in DOMAIN SolidOf(log) |-> SolidOf(log)[k].tile_coords],
                          Tile(x)) = 1
                 /\ \A k \in DOMAIN SolidOf(log) :
                       SolidOf(log)[k].tile_coords = Tile(x) =>
                          SolidOf(log)[k].paint_id = scene.paths[j + 1].paint
                 /\ \A k \in DOMAIN ReturnedInIndexOrder :
                       ( /\ ReturnedInIndexOrder[k].object_index = i
                         /\ AlphaTileCoords(ReturnedInIndexOrder[k]) = Tile(x) ) =>
                          /\ AlphaOf(log)[k].tile_x_lo = CULLED
                          /\ AlphaOf(log)[k].tile_y_lo = CULLED
                          /\ AlphaOf(log)[k].tile_hi = CULLED

\* ------------------------------------------------------------------ C7

\* C7 (cache reuse): a call of build under OnTranslation with a 2D transform,
\* following a call under OnTranslation with a 2D transform of the same matrix,
\* sends Finish with a build time of 0 and the SolidTile and AlphaTile commands
\* the call before sent.
C7_CacheReuse ==
    ( /\ phase = "done"
      /\ prev # <<>>
      /\ cache_policy = "OnTranslation"
      /\ render_transform.kind = "Transform2D"
      /\ render_transform.transform.matrix = prev[1].matrix ) =>
        /\ BuildTimeOf(log) = 0
        /\ TilePayload(log) = prev[1].payload

\* Such a call has ended, its translation differs from the one the tiles were
\* built with, and tiles were sent.
C7_Witness ==
    /\ phase = "done"
    /\ prev # <<>>
    /\ cache_policy = "OnTranslation"
    /\ render_transform.kind = "Transform2D"
    /\ render_transform.transform.matrix = prev[1].matrix
    /\ cached_data[1].transform.vector # render_transform.transform.vector
    /\ prev[1].payload # <<>>

\* ------------------------------------------------------------------ C8

\* The states C8 calls dirty.
DirtyAsClaimed ==
    \/ cache_policy = "Never"
    \/ render_transform.kind = "Perspective"
    \/ cached_data = <<>>
    \/ cached_data[1].transform.matrix # render_transform.transform.matrix

\* C8: scene_is_dirty is true exactly when the policy is Never, or the
\* transform is a perspective, or nothing is cached, or the cached 2D matrix
\* differs from the current one; and a call of build rebuilds the tiles exactly
\* when scene_is_dirty is true.
C8_DirtyExactly ==
    [][ /\ SceneIsDirty(cache_policy, render_transform, cached_data) <=> DirtyAsClaimed
        /\ (phase = "idle" /\ phase' # "idle") =>
              ((phase' = "building" /\ Commands(log', "Start") # <<>>) <=> DirtyAsClaimed)
      ]_vars

\* A call has reused the cache: the state was not dirty although the translation
\* is not the cached one.
C8_Witness ==
    /\ phase = "done"
    /\ ~rebuilt
    /\ ~DirtyAsClaimed
    /\ cached_data[1].transform # render_transform.transform

\* ------------------------------------------------------------------ C9

\* C9: the step that ends a rebuild under OnTranslation with a 2D transform
\* sets the cached data to the current 2D transform and the tiles just built
\* (the ones that step sends); every other step, of a build or a setter, leaves
\* the cached data as it is.
C9_CacheWrites ==
    [][ IF /\ phase = "building"
           /\ phase' = "done"
           /\ cache_policy = "OnTranslation"
           /\ render_transform.kind = "Transform2D"
        THEN cached_data' = << [transform |-> render_transform.transform,
                                tiles |-> [alpha |-> AlphaOf(log'),
                                           solid |-> SolidOf(log')]] >>
        ELSE cached_data' = cached_data
      ]_vars

\* A rebuild under OnTranslation has ended and has replaced the tiles an earlier
\* call under OnTranslation left in the cache.
C9_Witness ==
    /\ phase = "done"
    /\ rebuilt
    /\ prev # <<>>
    /\ cache_policy = "OnTranslation"
    /\ render_transform.kind = "Transform2D"
    /\ cached_data[1].transform = render_transform.transform
    /\ cached_data[1].transform.matrix # prev[1].matrix

\* ------------------------------------------------------------------ C10

\* A call of build is under way or has ended on a scene of one path whose
\* outline lies outside the clip polygon of the perspective.
CulledScene ==
    /\ phase # "idle"
    /\ Len(scene.paths) = 1
    /\ render_transform.kind = "Perspective"
    /\ IsOutsidePolygon(scene.paths[1].outline, transform.clip_polygon)

\* C10 as stated (scenario S6): for such a scene the listener receives exactly
\* Start, AddPaintData, FlushFills, Finish.
C10_NoFillsCommand ==
    (CulledScene /\ phase = "done") =>
        Types(log) = <<"Start", "AddPaintData", "FlushFills", "Finish">>

\* C10, amended: for such a scene the listener receives Start, AddPaintData, one
\* AddFills that carries no fill record, FlushFills, Finish, in this order and
\* nothing else: at every moment a prefix of it, and all of it once the call has
\* ended.
C10_EmptyFillsCommand ==
    CulledScene =>
        /\ IsPrefix(Types(log),
                    <<"Start", "AddPaintData", "AddFills", "FlushFills", "Finish">>)
        /\ \A i \in DOMAIN log : log[i].type = "AddFills" => log[i].fills = <<>>
        /\ phase = "done" => Len(log) = 5

\* Such a call has ended.
C10_Witness == CulledScene /\ phase = "done" /\ FillsOf(log) = <<>>

\* ------------------------------------------------------------------ C11

\* The tiles the call of build under way has sent or will send: the ones just
\* built, or the cached ones.
TilesOfCall == IF rebuilt THEN BuiltTiles ELSE cached_data[1].tiles

\* C11: a call of build that has ended has sent one SolidTile command holding
\* the solid batch if that batch is not empty and none otherwise, one AlphaTile
\* command holding the alpha batch if that batch is not empty and none
\* otherwise, SolidTile before AlphaTile; a build of a scene without paths sends
\* neither.
C11_SendIffNonEmpty ==
    phase = "done" =>
        LET solid == Commands(log, "SolidTile")
            alpha == Commands(log, "AlphaTile")
        IN /\ Len(solid) = (IF TilesOfCall.solid # <<>> THEN 1 ELSE 0)
           /\ Len(alpha) = (IF TilesOfCall.alpha # <<>> THEN 1 ELSE 0)
           /\ solid # <<>> => solid[1].tiles = TilesOfCall.solid
           /\ alpha # <<>> => alpha[1].tiles = TilesOfCall.alpha
           /\ \A i, j \in DOMAIN log :
                 (log[i].type = "SolidTile" /\ log[j].type = "AlphaTile") => i < j
           /\ scene.paths = <<>> => (solid = <<>> /\ alpha = <<>>)

\* A call has ended that had a solid batch and no alpha batch: it sent SolidTile
\* and no AlphaTile.
C11_Witness ==
    /\ phase = "done"
    /\ TilesOfCall.solid # <<>>
    /\ TilesOfCall.alpha = <<>>
    /\ Commands(log, "SolidTile") # <<>>
    /\ Commands(log, "AlphaTile") = <<>>

\* ------------------------------------------------------------------ C12

\* A sequence holds no value twice.
NoDuplicates(s_) == \A i, j \in DOMAIN s_ : s_[i] = s_[j] => i = j

\* The paint cache holds exactly the entries paint -> index of the paint in
\* paints, each once.
CacheInSync(scene_) ==
    /\ Len(scene_.paint_cache) = Len(scene_.paints)
    /\ Range(scene_.paint_cache)
          = {<<scene_.paints[i], i - 1>> : i \in DOMAIN scene_.paints}

\* C12 (paint dedup): push_paint(p) returns the index p already has in paints
\* and changes nothing when paints holds an equal paint, and otherwise appends p
\* and returns the new index; after the call paints holds no paint twice,
\* paints[returned id] = p, and the paint cache is in sync with paints.
C12_PaintDedup ==
    [][ (call' # <<>> /\ call'.op = "push_paint") =>
           LET p == call'.paint
               id == call'.ret
           IN /\ IF \E i \in DOMAIN scene.paints : scene.paints[i] = p
                 THEN /\ scene' = scene
                      /\ scene.paints[id + 1] = p
                 ELSE /\ scene'.paints = Append(scene.paints, p)
                      /\ id = Len(scene.paints)
                      /\ scene'.paths = scene.paths
                      /\ scene'.bounds = scene.bounds
                      /\ scene'.view_box = scene.view_box
              /\ id < Len(scene'.paints)
              /\ scene'.paints[id + 1] = p
              /\ NoDuplicates(scene'.paints)
              /\ CacheInSync(scene')
      ]_vars

\* Both paints are in the scene and the last call pushed the first of them
\* again: it returned the id of the first push and paints still holds two.
C12_Witness ==
    /\ call # <<>>
    /\ call.op = "push_paint"
    /\ Len(scene.paints) = 2
    /\ call.ret = 0
    /\ scene.paints[1] = call.paint

\* ------------------------------------------------------------------ C13

RECURSIVE UnionOfBounds(_)
\* The rectangle union of the bounds of the outlines of a non-empty sequence of
\* paths.
UnionOfBounds(paths) ==
    IF Len(paths) = 1 THEN OutlineBounds(paths[1].outline)
    ELSE UnionRect(UnionOfBounds(SubSeq(paths, 1, Len(paths) - 1)),
                   OutlineBounds(paths[Len(paths)].outline))

\* C13 as stated (bounds union): once a path has been pushed, bounds() is the
\* rectangle union of the bounds of the pushed outlines and of nothing else.
C13_BoundsUnion ==
    scene.paths # <<>> => scene.bounds = UnionOfBounds(scene.paths)

\* ------------------------------------------------------------------ C14

\* C14 as stated: the paint id of every path of the scene is an index into
\* paints.
C14_PaintIdsValid ==
    \A i \in DOMAIN scene.paths : scene.paths[i].paint < Len(scene.paints)

\* ------------------------------------------------------------------ C15

\* The object of the tiler of path p.
ObjectOf(task_, p) == task_[p].tiler.built_object

\* The last fill record of an object.
LastFill(object) == object.fills[Len(object.fills)]

\* The clamped fixed-point components add_fill computes for a segment in a tile.
FixedOf(segment, tile_coords) ==
    [from_x |-> ToFixed(segment.from_x, tile_coords[1]),
     from_y |-> ToFixed(segment.from_y, tile_coords[2]),
     to_x |-> ToFixed(segment.to_x, tile_coords[1]),
     to_y |-> ToFixed(segment.to_y, tile_coords[2])]

\* A fill record read back: each component is its nibble * 256 + its low byte.
Decode(fill) ==
    [from_x |-> (fill.px.from % 16) * 256 + fill.subpx.from_x,
     from_y |-> (fill.px.from \div 16) * 256 + fill.subpx.from_y,
     to_x |-> (fill.px.to % 16) * 256 + fill.subpx.to_x,
     to_y |-> (fill.px.to \div 16) * 256 + fill.subpx.to_y]

\* C15 (fill encoding): a fill record pushed by add_fill for the clamped
\* components fx, fy, tx, ty, all in 0..4095, has px.from = (fx >> 8) |
\* ((fy >> 8) << 4), px.to = (tx >> 8) | ((ty >> 8) << 4) and the low bytes of
\* the four components in subpx, and reading it back gives fx, fy, tx, ty.
C15_FillEncoding ==
    [][ ( /\ call' # <<>>
          /\ call'.op = "add_fill"
          /\ Len(ObjectOf(task', call'.p).fills) > Len(ObjectOf(task, call'.p).fills) ) =>
           LET fixed == FixedOf(call'.segment, call'.tile_coords)
               fill == LastFill(ObjectOf(task', call'.p))
           IN /\ \A v \in {fixed.from_x, fixed.from_y, fixed.to_x, fixed.to_y} :
                    v \in 0..(TILE_WIDTH * FIXED_ONE - 1)
              /\ fill.px.from = (fixed.from_x \div 256) + 16 * (fixed.from_y \div 256)
              /\ fill.px.to = (fixed.to_x \div 256) + 16 * (fixed.to_y \div 256)
              /\ fill.px.from \in 0..255
              /\ fill.px.to \in 0..255
              /\ fill.subpx = [from_x |-> fixed.from_x % 256,
                               from_y |-> fixed.from_y % 256,
                               to_x |-> fixed.to_x % 256,
                               to_y |-> fixed.to_y % 256]
              /\ Decode(fill) = fixed
      ]_vars

\* add_fill has pushed a record whose start has whole pixels and fractions in x
\* and in y that are neither 0 nor the largest value.
C15_Witness ==
    /\ call # <<>>
    /\ call.op = "add_fill"
    /\ ObjectOf(task, call.p).fills # <<>>
    /\ LET fill == LastFill(ObjectOf(task, call.p))
       IN /\ fill.px.from % 16 \notin {0, 15}
          /\ fill.px.from \div 16 \notin {0, 15}
          /\ fill.subpx.from_x \notin {0, 255}
          /\ fill.subpx.from_y \notin {0, 255}
          /\ Decode(fill) = FixedOf(call.segment, call.tile_coords)

\* ------------------------------------------------------------------ C16

\* C16 as stated: a call that pushes fills never gives them the alpha-tile
\* index 0xFFFF and never stores 0xFFFF in the tile as its allocated index, and
\* an index taken from a counter at or past 0xFFFE is 0xFFFE.
C16_SentinelReserved ==
    [][ ( /\ call' # <<>>
          /\ call'.op \in {"add_fill", "add_active_fill"}
          /\ Len(ObjectOf(task', call'.p).fills) > Len(ObjectOf(task, call'.p).fills) ) =>
           LET fill == LastFill(ObjectOf(task', call'.p))
           IN /\ fill.alpha_tile_index # U16_MAX
              /\ next_alpha_tile_index' # next_alpha_tile_index =>
                    fill.alpha_tile_index = Min(next_alpha_tile_index, U16_MAX - 1)
      ]_vars

\* ------------------------------------------------------------------ C17

\* An alpha tile with the bytes of its tile coordinates set to 0xFF.
Masked(alpha_tile) ==
    [alpha_tile EXCEPT !.tile_x_lo = CULLED, !.tile_y_lo = CULLED, !.tile_hi = CULLED]

\* C17 as stated: the alpha tiles shipped are the ones the paths returned, in
\* the same number and order, with the coordinate bytes set to 0xFF in exactly
\* those whose z-buffer cell holds more than object_index + 1 and nothing else
\* changed.
C17_CullExactly ==
    (phase = "done" /\ rebuilt) =>
        /\ Len(AlphaOf(log)) = Len(ReturnedInIndexOrder)
        /\ \A k \in DOMAIN AlphaOf(log) :
              LET alpha_tile == ReturnedInIndexOrder[k]
                  cell == z_buffer.data[CoordsToIndexUnchecked(
                              z_buffer, AlphaTileCoords(alpha_tile))]
              IN AlphaOf(log)[k] = (IF cell > alpha_tile.object_index + 1
                                    THEN Masked(alpha_tile)
                                    ELSE alpha_tile)

\* ------------------------------------------------------------------ C18

\* The (path, tile) slots of the two objects.
Slots == {<<p, i>> : p \in 0..1, i \in 1..FillTiles}

\* The alpha-tile index a slot holds.
SlotIndex(task_, slot) ==
    ObjectOf(task_, slot[1]).tiles.data[slot[2]].alpha_tile_index

\* The slots that hold an allocated index.
Allocated(task_) == {slot \in Slots : SlotIndex(task_, slot) # U16_MAX}

\* The slot a call of add_fill or add_active_fill names, if the tile lies in
\* the object.
SlotOfCall(call_) ==
    IF call_.op \in {"add_fill", "add_active_fill"}
    THEN {<<call_.p, i>> : i \in Range(CoordsToIndex(ObjectOf(task, call_.p).tiles,
                                                     call_.tile_coords))}
    ELSE {}

\* C18: while fewer than 2^16 - 1 indices have been allocated, under every
\* interleaving of the calls of the two tilers, no two slots hold the same
\* index, a slot keeps the index it holds, a call on a slot that holds an index
\* gives its fills that index and leaves the counter alone, the counter advances
\* by one per slot allocated, and in a build that started from 0 it equals the
\* number of allocated slots.
C18_AllocationUnique ==
    [][ next_alpha_tile_index' < U16_MAX =>
           /\ \A a, b \in Allocated(task') :
                 SlotIndex(task', a) = SlotIndex(task', b) => a = b
           /\ \A a \in Allocated(task) : SlotIndex(task', a) = SlotIndex(task, a)
           /\ next_alpha_tile_index' - next_alpha_tile_index
                 = Cardinality(Allocated(task') \ Allocated(task))
           /\ \A slot \in SlotOfCall(call') \cap Allocated(task) :
                 /\ next_alpha_tile_index' = next_alpha_tile_index
                 /\ \A k \in (Len(ObjectOf(task, slot[1]).fills) + 1)
                               ..Len(ObjectOf(task', slot[1]).fills) :
                       ObjectOf(task', slot[1]).fills[k].alpha_tile_index
                          = SlotIndex(task, slot)
           /\ next_alpha_tile_index' < U16_MAX - 1 =>
                 next_alpha_tile_index' = Cardinality(Allocated(task'))
      ]_vars

\* The two tilers have each allocated the alpha tile of the same tile
\* coordinates, path 1 before path 0.
C18_Witness ==
    /\ {<<0, 1>>, <<1, 1>>} \subseteq Allocated(task)
    /\ SlotIndex(task, <<1, 1>>) = 0
    /\ SlotIndex(task, <<0, 1>>) = 1
    /\ next_alpha_tile_index = 2

\* ------------------------------------------------------------------ C19

\* C19: while a build runs no z-buffer cell ever decreases, under every
\* interleaving of the updates of the path tasks, and once every task has
\* returned each cell holds the largest path_index + 1 among the opaque paths
\* for which the tile is solid, 0 if there is none.
C19_ZBufferMonotone ==
    [][ (phase = "building" /\ phase' \in {"building", "done"}) =>
           /\ z_buffer'.rect = z_buffer.rect
           /\ \A i \in DOMAIN z_buffer.data : z_buffer'.data[i] >= z_buffer.data[i]
           /\ (\A p \in DOMAIN task' : task'[p].pc = "done") =>
                 \A i \in DOMAIN z_buffer'.data :
                    LET x == z_buffer'.rect.lo + i - 1
                        writers == {p \in 0..(Len(scene.paths) - 1) :
                                       OpaquePath(p) /\ KindAt(Prepared(p), x) = "solid"}
                    IN /\ writers = {} => z_buffer'.data[i] = 0
                       /\ writers # {} =>
                             /\ z_buffer'.data[i] - 1 \in writers
                             /\ \A p \in writers : p + 1 <= z_buffer'.data[i]
      ]_vars

\* A rebuild has ended in which two opaque paths updated the same cell and
\* path 1 returned before path 0: the cell holds 2.
C19_Witness ==
    /\ phase = "done"
    /\ rebuilt
    /\ arrival = <<1, 0>>
    /\ \E i \in DOMAIN z_buffer.data :
          /\ z_buffer.data[i] = 2
          /\ \A p \in {0, 1} :
                OpaquePath(p) /\ KindAt(Prepared(p), z_buffer.rect.lo + i - 1) = "solid"

\* ------------------------------------------------------------------ C20

\* The absolute value.
Abs(n) == IF n < 0 THEN 0 - n ELSE n

\* The records a call of add_active_fill appended to its object.
Appended(task_before, task_after, p) ==
    SubSeq(ObjectOf(task_after, p).fills,
           Len(ObjectOf(task_before, p).fills) + 1,
           Len(ObjectOf(task_after, p).fills))

\* The record of the segment on the top edge of the tile from `left` to `right`
\* when the winding is negative, from `right` to `left` otherwise.
TopEdge(call_) ==
    LET l == ToFixed(call_.left, call_.tile_coords[1])
        r == ToFixed(call_.right, call_.tile_coords[1])
    IN IF call_.winding < 0
       THEN [from_x |-> l, from_y |-> 0, to_x |-> r, to_y |-> 0]
       ELSE [from_x |-> r, from_y |-> 0, to_x |-> l, to_y |-> 0]

\* C20 as stated: add_active_fill appends exactly |winding| fill records, each
\* the segment on the tile's top edge, left to right for a negative winding and
\* right to left for a positive one, and nothing for winding 0.
C20_ExactlyWindingFills ==
    [][ (call' # <<>> /\ call'.op = "add_active_fill") =>
           LET new == Appended(task, task', call'.p)
           IN /\ Len(new) = Abs(call'.winding)
              /\ \A k \in DOMAIN new : Decode(new[k]) = TopEdge(call')
      ]_vars

\* C20, amended: add_active_fill appends |winding| such records when the tile
\* lies in the object's tile rect and left and right differ once clamped to the
\* tile and truncated to fixed point, and appends nothing otherwise; the records
\* the object held stay as they are.
C20_WindingFillsUnlessCulled ==
    [][ (call' # <<>> /\ call'.op = "add_active_fill") =>
           LET new == Appended(task, task', call'.p)
               before == ObjectOf(task, call'.p).fills
               kept == /\ TileCoordsToLocalIndex(ObjectOf(task, call'.p),
                                                  call'.tile_coords) # <<>>
                       /\ TopEdge(call').from_x # TopEdge(call').to_x
           IN /\ Len(new) = (IF kept THEN Abs(call'.winding) ELSE 0)
              /\ \A k \in DOMAIN new : Decode(new[k]) = TopEdge(call')
              /\ SubSeq(ObjectOf(task', call'.p).fills, 1, Len(before)) = before
      ]_vars

\* add_active_fill with winding -2 has appended two records running left to
\* right.
C20_Witness ==
    /\ call # <<>>
    /\ call.op = "add_active_fill"
    /\ call.n = 1
    /\ call.winding = 0 - MaxWinding
    /\ Len(ObjectOf(task, call.p).fills) = MaxWinding
    /\ Decode(LastFill(ObjectOf(task, call.p))).from_x
          < Decode(LastFill(ObjectOf(task, call.p))).to_x

\* ------------------------------------------------------------------ C21

\* The width of a tile column, in coordinate units.
ColumnWidth == TILE_WIDTH * Pixel

\* The smaller and the larger x of a segment.
LeftX(segment) == Min(segment.from_x, segment.to_x)
RightX(segment) == Max(segment.from_x, segment.to_x)

\* C21 as stated: generate_fill_primitives_for_line calls add_fill once for
\* each column x of [floor(left / W), ceil(right / W)), in ascending x and with
\* tile coordinates (x, tile_y), for segments with negative x as for the others.
C21_OneCallPerColumn ==
    (call # <<>> /\ call.op = "generate_fill_primitives_for_line") =>
        LET first == LeftX(call.segment) \div ColumnWidth
            last == 0 - ((0 - RightX(call.segment)) \div ColumnWidth)
        IN /\ Len(call.adds) = Max(last - first, 0)
           /\ \A k \in DOMAIN call.adds :
                 call.adds[k].tile_coords = <<first + k - 1, call.tile_y>>

\* ------------------------------------------------------------------ C22

\* The end point of a segment with the smaller x, and the one with the larger
\* x, for a segment running the way `winding` says.
LeftEnd(segment, winding) ==
    IF ~winding THEN <<segment.from_x, segment.from_y>>
    ELSE <<segment.to_x, segment.to_y>>
RightEnd(segment, winding) ==
    IF ~winding THEN <<segment.to_x, segment.to_y>>
    ELSE <<segment.from_x, segment.from_y>>

\* -1, 0 or 1 as n is negative, zero or positive.
Sign(n) == IF n < 0 THEN 0 - 1 ELSE IF n > 0 THEN 1 ELSE 0

C23_FillsWellFormed ==
    \A p \in DOMAIN task :
        LET object == ObjectOf(task, p)
        IN \A k \in DOMAIN object.fills :
              LET fixed == Decode(object.fills[k])
              IN /\ fixed.from_x # fixed.to_x
                 /\ \A v \in {fixed.from_x, fixed.from_y, fixed.to_x, fixed.to_y} :
                       v \in 0..(TILE_WIDTH * FIXED_ONE - 1)
                 /\ \E i \in DOMAIN object.tiles.data :
                       object.tiles.data[i].alpha_tile_index
                          = object.fills[k].alpha_tile_index

\* ------------------------------------------------------------------ C24

\* add_fill drops the fill: the tile lies outside the object's tile rect, or
\* from_x and to_x are equal once clamped to the tile in fixed point.
Dropped(object, segment, tile_coords) ==
    \/ TileCoordsToLocalIndex(object, tile_coords) = <<>>
    \/ FixedOf(segment, tile_coords).from_x = FixedOf(segment, tile_coords).to_x

\* C24: a call of add_fill that drops its fill changes nothing: the fill lists,
\* the alpha_tile_index slots of the tiles and the builder's
\* next_alpha_tile_index are as they were.
C24_DroppedFillChangesNothing ==
    [][ ( /\ call' # <<>>
          /\ call'.op = "add_fill"
          /\ Dropped(ObjectOf(task, call'.p), call'.segment, call'.tile_coords) ) =>
           /\ task' = task
           /\ next_alpha_tile_index' = next_alpha_tile_index
      ]_vars

\* The second call was an add_fill on a tile of the object with from_x = to_x
\* after the clamp: the tile's slot is still unallocated, and the counter and the
\* fill list are as the first call, which pushed a fill on another tile, left
\* them.
C24_Witness ==
    /\ call # <<>>
    /\ call.op = "add_fill"
    /\ call.n = 2
    /\ TileCoordsToLocalIndex(ObjectOf(task, call.p), call.tile_coords) # <<>>
    /\ Dropped(ObjectOf(task, call.p), call.segment, call.tile_coords)
    /\ call.segment.from_x # call.segment.to_x
    /\ SlotIndex(task, <<call.p, CoordsToIndexUnchecked(
                                     ObjectOf(task, call.p).tiles, call.tile_coords)>>)
          = U16_MAX
    /\ Len(ObjectOf(task, call.p).fills) = 1
    /\ next_alpha_tile_index = 1

\* ------------------------------------------------------------------ C25

\* C25 as stated: when a call of build reuses the cached tiles, the scene
\* (paths, paints, view box) and the build options (dilation, subpixel AA) are
\* the ones those tiles were built from.
C25_ReuseOnlyWhenUnchanged ==
    (phase = "done" /\ ~rebuilt) =>
        /\ built_with # <<>>
        /\ built_with[1].scene = scene
        /\ built_with[1].options = options

\* ------------------------------------------------------------------ C26

\* The places of the commands of one type in a log.
Places(log_, type) == {i \in DOMAIN log_ : log_[i].type = type}

\* C26 as stated: in every rebuild, whether it ends or not, build_path runs
\* once for each path index and sends one AddFills for it, empty or not, so the
\* listener receives path_count AddFills, all after AddPaintData and before
\* FlushFills, and the fill records of the build are each in one of them.
C26_OneAddFillsPerPath ==
    (rebuilt /\ phase \in {"done", "aborted"}) =>
        /\ Cardinality(Places(log, "AddFills")) = Len(scene.paths)
        /\ \A p \in DOMAIN task : task[p].pc = "done" /\ Count(arrival, p) = 1
        /\ \A i \in Places(log, "AddFills") :
              /\ \E j \in Places(log, "AddPaintData") : j < i
              /\ \E j \in Places(log, "FlushFills") : i < j
        /\ LET got == FillsOf(log)
               seq == SequentialFills(0, 0)
           IN SameBag([i \in DOMAIN got |-> Geometry(got[i])],
                      [i \in DOMAIN seq |-> Geometry(seq[i])])

====
